---- MODULE Spec2Model ----
(***************************************************************************)
(* Crossroad chat app: the conversation resolver of ChatList               *)
(* (src/src/chat.tsx, openConversation) and the message timeline of        *)
(* ChatThread (src/src/chat-thread.tsx), each against the backend tables   *)
(* it reads and writes.  Every await of the source is a point where other  *)
(* callbacks and other devices may run, so every await is the boundary     *)
(* between two actions.                                                     *)
(***************************************************************************)
EXTENDS Integers, Sequences, FiniteSets, TLC

(***************************************************************************)
(* Bounds of the model.                                                     *)
(***************************************************************************)
MaxConv == 2         \* rows the conversations table may hold
MaxMsgs == 2         \* rows the messages table of the conversation may hold
MaxRefresh == 1      \* pulls to refresh of one ChatThread
MaxChanges == 1      \* changes of conversationId one mounted ChatThread gets

Users == {"u1", "u2", "u3"}
\* The invocations of openConversation that may be in flight at once.
Calls == {"c1", "c2"}
Null == "null"
NoConv == 0

VARIABLES
    \* backend tables
    conversations,        \* set of conversation ids
    conversation_members, \* set of rows [conversation_id, user_id]
    \* ChatList, one instance per signed-in user
    profiles,             \* profiles[u]: the ids the list of user u shows
    openingProfileId,     \* openingProfileId[u]
    \* one record per invocation of openConversation that is in flight
    call,
    \* what the invocation that returned last did
    returned,
    \* every navigation.navigate('ChatThread', ...) made so far: the two
    \* users of the thread (userId, profileId) and its conversationId
    navigations,
    \* backend: the messages table of the conversation of the thread (rows
    \* in insertion order) and the INSERT events on their way to the
    \* thread's channel
    db, pushQueue,
    \* ChatThread, one mounted instance (state of the component)
    mounted, messages, messageText, loadingMessages, sendingMessage,
    refreshToken,
    \* the runs of the load effect (loadMessages and its isMounted flag), the
    \* realtime channel of the subscription effect, the sendMessage call in
    \* flight, and the kinds of Alert.alert raised so far
    loads, channel, send, alerts,
    \* history: what the last run of the INSERT handler found, "present" or
    \* "absent" ("none" before the first run)
    lastPush,
    \* history: the last step was a press of send that sendMessage returned
    \* from before its first setter
    rejectedSend,
    \* history: the calls of .subscribe() and supabase.removeChannel made by
    \* the subscription effect, in their order
    channelLog

resolverVars ==
    <<conversations, conversation_members, profiles, openingProfileId, call,
      returned, navigations>>

threadVars ==
    <<db, pushQueue, mounted, messages, messageText, loadingMessages,
      sendingMessage, refreshToken, loads, channel, send, alerts, lastPush,
      rejectedSend, channelLog>>

vars == <<resolverVars, threadVars>>

(***************************************************************************)
(* ChatList: loadProfiles and openConversation.                            *)
(***************************************************************************)

\* loadProfiles: every profile but the current user's (.neq('id', userId)).
LoadedProfiles(userId) == Users \ {userId}

\* failedAt: the step whose error the invocation has alerted ("none" so far);
\* issued: the backend requests the invocation has sent, in order;
\* hadShared: whether a conversation of both users existed when it started;
\* inserted: whether it has inserted a row.
IdleCall ==
    [pc |-> "idle", userId |-> Null, profile |-> Null, conversationIds |-> {},
     conversation |-> NoConv, failedAt |-> "none", issued |-> <<>>,
     hadShared |-> FALSE, inserted |-> FALSE]

NoReturn ==
    [userId |-> Null, profile |-> Null, navigated |-> NoConv,
     failedAt |-> "none", issued |-> <<>>, hadShared |-> FALSE,
     inserted |-> FALSE]

\* .from('conversation_members').select('conversation_id').eq('user_id', u)
QueryMemberships(u) ==
    {m.conversation_id : m \in {r \in conversation_members : r.user_id = u}}

\* A faulty variant of QueryShared: the .in('conversation_id', conversationIds) filter is missing.
QuerySharedNoInFilter(profileId, conversationIds) ==
    {m.conversation_id : m \in {r \in conversation_members : r.user_id = profileId}}

\* A faulty variant of QueryShared: the .in filter is negated.
QuerySharedNotIn(profileId, conversationIds) ==
    {m.conversation_id :
        m \in {r \in conversation_members :
                  r.user_id = profileId /\ r.conversation_id \notin conversationIds}}

\* ... .eq('user_id', profileId).in('conversation_id', conversationIds);
\* .limit(1) then keeps any one row of these, there is no ORDER BY.
QueryShared(profileId, conversationIds) ==
    {m.conversation_id :
        m \in {r \in conversation_members :
                  r.user_id = profileId /\ r.conversation_id \in conversationIds}}

\* The conversations that have a row for a and a row for b.
SharedConversations(a, b) == QueryMemberships(a) \cap QueryMemberships(b)

\* The membership set of conversation c.
MembersOf(c) == {r.user_id : r \in {m \in conversation_members : m.conversation_id = c}}

\* navigation.navigate('ChatThread', {userId, conversationId, profileId, ...})
Navigate(c, conversationId) ==
    navigations' = navigations \cup
        {[participants |-> {call[c].userId, call[c].profile},
          conversationId |-> conversationId]}

\* finally { setOpeningProfileId(null) }
Finally(c) ==
    openingProfileId' = [openingProfileId EXCEPT ![call[c].userId] = Null]

\* The invocation returns: failedAt is the step whose error was alerted
\* ("none" when it navigated), navigated the conversation id it handed to
\* ChatThread (NoConv when it did not navigate).
Return(c, failedAt, navigated, inserted) ==
    /\ call' = [call EXCEPT ![c] = IdleCall]
    /\ returned' = [userId |-> call[c].userId, profile |-> call[c].profile,
                    navigated |-> navigated,
                    failedAt |-> IF call[c].failedAt # "none"
                                 THEN call[c].failedAt ELSE failedAt,
                    issued |-> call[c].issued, hadShared |-> call[c].hadShared,
                    inserted |-> inserted]
    /\ Finally(c)

\* A faulty variant of AbortAt: the `return` after the alert of memberInsertError is missing, the
\* call falls through to navigation.navigate.
AbortAtFallsThrough(c, s) ==
    IF s = "insMem"
    THEN /\ Navigate(c, call[c].conversation)
         /\ Return(c, s, call[c].conversation, call[c].inserted)
    ELSE /\ Return(c, s, NoConv, call[c].inserted)
         /\ UNCHANGED navigations

\* `Alert.alert(error.message); return;` at step s.
AbortAt(c, s) ==
    /\ Return(c, s, NoConv, call[c].inserted)
    /\ UNCHANGED navigations

\* A tap on the row of profile p in the list of user u: the row is disabled
\* only while openingProfileId is p.  Runs to the first await.  (A new
\* invocation takes the first free record: which record it is has no
\* meaning.)
StartOpenConversation(c, u, p) ==
    /\ call[c].pc = "idle"
    /\ c = "c2" => call["c1"].pc # "idle"
    /\ p \in profiles[u]
    /\ openingProfileId[u] # p
    /\ openingProfileId' = [openingProfileId EXCEPT ![u] = p]
    /\ call' = [call EXCEPT ![c] =
                  [IdleCall EXCEPT !.pc = "q1", !.userId = u, !.profile = p,
                                   !.issued = <<"q1">>,
                                   !.hadShared = SharedConversations(u, p) # {}]]
    /\ UNCHANGED <<conversations, conversation_members, profiles, returned,
                   navigations>>
    /\ UNCHANGED threadVars

\* The membership query of the current user answers.
MembershipsAnswer(c) ==
    /\ call[c].pc = "q1"
    /\ \/ \* membershipError
          AbortAt(c, "q1")
       \/ LET conversationIds == QueryMemberships(call[c].userId)
              next == IF conversationIds # {} THEN "q2" ELSE "insConv"
          IN /\ call' = [call EXCEPT ![c].pc = next,
                                     ![c].conversationIds = conversationIds,
                                     ![c].issued = Append(@, next)]
             /\ UNCHANGED <<openingProfileId, returned, navigations>>
    /\ UNCHANGED <<conversations, conversation_members, profiles>>
    /\ UNCHANGED threadVars

\* The shared-membership query answers.
SharedAnswer(c) ==
    /\ call[c].pc = "q2"
    /\ LET shared == QueryShared(call[c].profile, call[c].conversationIds)
       IN \/ \* sharedError
             AbortAt(c, "q2")
          \/ \* shared && shared.length: shared[0] is any row of the result
             \E s \in shared :
                 /\ Navigate(c, s)
                 /\ Return(c, "none", s, call[c].inserted)
          \/ /\ shared = {}
             /\ call' = [call EXCEPT ![c].pc = "insConv",
                                     ![c].issued = Append(@, "insConv")]
             /\ UNCHANGED <<openingProfileId, returned, navigations>>
    /\ UNCHANGED <<conversations, conversation_members, profiles>>
    /\ UNCHANGED threadVars

\* The insert into conversations answers.
ConversationInsertAnswer(c) ==
    /\ call[c].pc = "insConv"
    /\ \/ \* conversationError || !conversation
          /\ AbortAt(c, "insConv")
          /\ UNCHANGED conversations
       \/ /\ Cardinality(conversations) < MaxConv
          /\ LET id == Cardinality(conversations) + 1
             IN /\ conversations' = conversations \cup {id}
                /\ call' = [call EXCEPT ![c].pc = "insMem",
                                        ![c].conversation = id,
                                        ![c].inserted = TRUE,
                                        ![c].issued = Append(@, "insMem")]
          /\ UNCHANGED <<openingProfileId, returned, navigations>>
    /\ UNCHANGED <<conversation_members, profiles>>
    /\ UNCHANGED threadVars

\* The insert of the two membership rows answers (one statement: both rows
\* or neither).
MembersInsertAnswer(c) ==
    /\ call[c].pc = "insMem"
    /\ \/ \* memberInsertError
          /\ AbortAt(c, "insMem")
          /\ UNCHANGED conversation_members
       \/ /\ conversation_members' = conversation_members \cup
                {[conversation_id |-> call[c].conversation, user_id |-> call[c].userId],
                 [conversation_id |-> call[c].conversation, user_id |-> call[c].profile]}
          /\ Navigate(c, call[c].conversation)
          /\ Return(c, "none", call[c].conversation, TRUE)
    /\ UNCHANGED <<conversations, profiles>>
    /\ UNCHANGED threadVars

(***************************************************************************)
(* ChatThread (src/src/chat-thread.tsx): one instance, of user Me in the   *)
(* conversation with Other, and the messages table of that conversation.   *)
(***************************************************************************)
Me == "u1"
Other == "u2"

\* Texts of the compose field, as sequences of characters.
Texts == {<<>>, <<" ">>, <<" ", "h", " ">>}
OtherBody == <<"y">>

\* String.prototype.trim
RECURSIVE TrimStart(_)
TrimStart(t) ==
    IF t # <<>> /\ Head(t) = " " THEN TrimStart(Tail(t)) ELSE t

RECURSIVE TrimEnd(_)
TrimEnd(t) ==
    IF t # <<>> /\ t[Len(t)] = " " THEN TrimEnd(SubSeq(t, 1, Len(t) - 1)) ELSE t

\* A faulty variant of Trim: the text is taken as typed.
NoTrim(t) == t

Trim(t) == TrimEnd(TrimStart(t))

\* A faulty variant of TempId: the temporary id is a number of the kind the
\* table assigns.
TempIdNumeric(t) == [kind |-> "row", n |-> t + 1]

\* `temp-${Date.now()}`: a string no id of the messages table equals.
TempId(t) == [kind |-> "temp", n |-> t]
\* The id the messages table assigns to its n-th row.
RowId(n) == [kind |-> "row", n |-> n]

NoSend == [phase |-> "none"]

\* prev.some(message => message.id === id)
HasId(prev, id) == \E i \in 1..Len(prev) : prev[i].id = id

\* A faulty variant of ApplyRemoteInsert: the handler appends without looking for the id.
ApplyRemoteInsertUnguarded(prev, newMessage) == Append(prev, newMessage)

\* The updater of the INSERT handler.
ApplyRemoteInsert(prev, newMessage) ==
    IF HasId(prev, newMessage.id) THEN prev ELSE Append(prev, newMessage)

\* A faulty variant of AppendOptimistic: the pending entry goes to the front.
PrependOptimistic(prev, optimisticMessage) == <<optimisticMessage>> \o prev

\* prev => [...prev, optimisticMessage]
AppendOptimistic(prev, optimisticMessage) == Append(prev, optimisticMessage)

\* A faulty variant of RemovePending: the error branch drops the last entry
\* of the timeline, whatever its id.
RemovePendingLast(prev, optimisticId) == SubSeq(prev, 1, Len(prev) - 1)

\* prev.filter(message => message.id !== optimisticId)
RECURSIVE RemovePending(_, _)
RemovePending(prev, optimisticId) ==
    IF prev = <<>> THEN <<>>
    ELSE IF Head(prev).id = optimisticId
         THEN RemovePending(Tail(prev), optimisticId)
         ELSE <<Head(prev)>> \o RemovePending(Tail(prev), optimisticId)

\* A faulty variant of ReplacePending: the row is added and the pending
\* entry stays.
ReplacePendingKeep(prev, optimisticId, data) == Append(prev, data)

\* prev.map(message => (message.id === optimisticId ? data : message))
ReplacePending(prev, optimisticId, data) ==
    [i \in 1..Len(prev) |-> IF prev[i].id = optimisticId THEN data ELSE prev[i]]

\* The results .order('created_at', {ascending: true}) may give: the rows of
\* the table by created_at, rows of equal created_at in any order.
OrderedByCreatedAt(rows) ==
    LET n == Len(rows)
    IN {s \in [1..n -> {rows[i] : i \in 1..n}] :
           /\ \A i, j \in 1..n : s[i] = s[j] => i = j
           /\ \A i, j \in 1..n : i < j => s[i].created_at <= s[j].created_at}

\* The time, in ticks, read by the client's `new Date()` and `Date.now()`:
\* the clocks of client and backend agree, and a tick passes before every
\* insert into the table.
Now == IF db = <<>> THEN 0 ELSE db[Len(db)].created_at

\* The created_at the table's default gives the row inserted next.
InsertTimes == {Now + 1}

\* A row enters the messages table: id and created_at are assigned by the
\* table, and the INSERT event goes to the channel when it has joined.
InsertRow(sender_id, body, created_at) ==
    [id |-> RowId(Len(db) + 1), created_at |-> created_at,
     sender_id |-> sender_id, body |-> body]

Publish(row) ==
    pushQueue' = IF channel = "joined" THEN pushQueue \cup {row} ELSE pushQueue

\* The subscription effect: its body ends with .subscribe(), its cleanup
\* calls supabase.removeChannel.
Subscribe(log) == Append(log, "subscribe")

\* A faulty variant of RemoveChannel: the cleanup leaves the channel.
RemoveChannelSkipped(log) == log

RemoveChannel(log) == Append(log, "remove")

\* The run of the load effect for the current refreshToken has started.
StartedLoad == [phase |-> "sent", isMounted |-> TRUE, error |-> FALSE, data |-> <<>>]

\* The state after mount: setMessages([]), loadMessages() up to its await,
\* and the channel subscribing.
InitChatThread ==
    /\ db = <<>>
    /\ pushQueue = {}
    /\ mounted = TRUE
    /\ messages = <<>>
    /\ messageText = <<>>
    /\ loadingMessages = TRUE
    /\ sendingMessage = FALSE
    /\ refreshToken = 0
    /\ loads = <<StartedLoad>>
    /\ channel = "joining"
    /\ send = NoSend
    /\ alerts = {}
    /\ lastPush = "none"
    /\ rejectedSend = FALSE
    /\ channelLog = Subscribe(<<>>)

\* A faulty variant of ChangeText: the input stays editable while a send is
\* in flight.
ChangeTextWhileSending(t) ==
    /\ mounted
    /\ t # messageText
    /\ messageText' = t
    /\ UNCHANGED <<db, pushQueue, mounted, messages, loadingMessages,
                   sendingMessage, refreshToken, loads, channel, send, alerts>>
    /\ rejectedSend' = FALSE
    /\ UNCHANGED <<lastPush, channelLog, resolverVars>>

\* onChangeText of the input, editable while no send is in flight.
ChangeText(t) ==
    /\ mounted
    /\ ~sendingMessage
    /\ t # messageText
    /\ messageText' = t
    /\ UNCHANGED <<db, pushQueue, mounted, messages, loadingMessages,
                   sendingMessage, refreshToken, loads, channel, send, alerts>>
    /\ rejectedSend' = FALSE
    /\ UNCHANGED <<lastPush, channelLog, resolverVars>>

\* A faulty variant of SendMessage: the sending flag is not set.
SendMessageNoFlag ==
    /\ mounted
    /\ LET trimmed == Trim(messageText)
           optimisticId == TempId(Now)
           optimisticMessage ==
               [id |-> optimisticId, created_at |-> Now, sender_id |-> Me,
                body |-> trimmed]
       IN IF trimmed = <<>> \/ sendingMessage
          THEN /\ rejectedSend' = TRUE
               /\ UNCHANGED <<messages, messageText, send>>
          ELSE /\ rejectedSend' = FALSE
               /\ messages' = AppendOptimistic(messages, optimisticMessage)
               /\ messageText' = <<>>
               /\ send' = [phase |-> "sent", optimisticId |-> optimisticId,
                           trimmed |-> trimmed]
    /\ UNCHANGED <<db, pushQueue, mounted, loadingMessages, sendingMessage,
                   refreshToken, loads, channel, alerts>>
    /\ UNCHANGED <<lastPush, channelLog, resolverVars>>

\* sendMessage up to its await (the button is disabled while sendingMessage).
SendMessage ==
    /\ mounted
    /\ LET trimmed == Trim(messageText)
           optimisticId == TempId(Now)
           optimisticMessage ==
               [id |-> optimisticId, created_at |-> Now, sender_id |-> Me,
                body |-> trimmed]
       IN IF trimmed = <<>> \/ sendingMessage
          THEN /\ rejectedSend' = TRUE
               /\ UNCHANGED <<messages, messageText, sendingMessage, send>>
          ELSE /\ rejectedSend' = FALSE
               /\ messages' = AppendOptimistic(messages, optimisticMessage)
               /\ messageText' = <<>>
               /\ sendingMessage' = TRUE
               /\ send' = [phase |-> "sent", optimisticId |-> optimisticId,
                           trimmed |-> trimmed]
    /\ UNCHANGED <<db, pushQueue, mounted, loadingMessages, refreshToken,
                   loads, channel, alerts>>
    /\ UNCHANGED <<lastPush, channelLog, resolverVars>>

\* The backend answers the insert of sendMessage.
InsertAnswer ==
    /\ send.phase = "sent"
    /\ \/ /\ send' = [send EXCEPT !.phase = "answered"] @@ [error |-> TRUE]
          /\ UNCHANGED <<db, pushQueue>>
       \/ /\ Len(db) < MaxMsgs
          /\ \E created_at \in InsertTimes :
                LET row == InsertRow(Me, send.trimmed, created_at)
                IN /\ db' = Append(db, row)
                   /\ Publish(row)
                   /\ send' = [send EXCEPT !.phase = "answered"]
                                  @@ [error |-> FALSE, data |-> row]
    /\ UNCHANGED <<mounted, messages, messageText, loadingMessages,
                   sendingMessage, refreshToken, loads, channel, alerts>>
    /\ rejectedSend' = FALSE
    /\ UNCHANGED <<lastPush, channelLog, resolverVars>>

\* sendMessage after its await.  The state setters of an unmounted
\* component change nothing; Alert.alert is not a state setter.
SendResult ==
    /\ send.phase = "answered"
    /\ send' = NoSend
    /\ IF send.error
       THEN /\ alerts' = alerts \cup {"send"}
            /\ IF mounted
               THEN /\ messages' = RemovePending(messages, send.optimisticId)
                    /\ messageText' = send.trimmed
                    /\ sendingMessage' = FALSE
               ELSE UNCHANGED <<messages, messageText, sendingMessage>>
       ELSE /\ UNCHANGED <<alerts, messageText>>
            /\ IF mounted
               THEN /\ messages' = ReplacePending(messages, send.optimisticId, send.data)
                    /\ sendingMessage' = FALSE
               ELSE UNCHANGED <<messages, sendingMessage>>
    /\ UNCHANGED <<db, pushQueue, mounted, loadingMessages, refreshToken,
                   loads, channel>>
    /\ rejectedSend' = FALSE
    /\ UNCHANGED <<lastPush, channelLog, resolverVars>>

\* The other participant's device inserts a message (followed while the
\* thread is mounted).
OtherInsert ==
    /\ mounted
    /\ Len(db) < MaxMsgs
    /\ \E created_at \in InsertTimes :
          LET row == InsertRow(Other, OtherBody, created_at)
          IN /\ db' = Append(db, row)
             /\ Publish(row)
    /\ UNCHANGED <<mounted, messages, messageText, loadingMessages,
                   sendingMessage, refreshToken, loads, channel, send, alerts>>
    /\ rejectedSend' = FALSE
    /\ UNCHANGED <<lastPush, channelLog, resolverVars>>

\* .subscribe() has joined the channel.
ChannelJoined ==
    /\ channel = "joining"
    /\ channel' = "joined"
    /\ UNCHANGED <<db, pushQueue, mounted, messages, messageText,
                   loadingMessages, sendingMessage, refreshToken, loads, send,
                   alerts>>
    /\ rejectedSend' = FALSE
    /\ UNCHANGED <<lastPush, channelLog, resolverVars>>

\* The channel delivers an INSERT event; events arrive in any order.
PushInsert(newMessage) ==
    /\ channel = "joined"
    /\ newMessage \in pushQueue
    /\ pushQueue' = pushQueue \ {newMessage}
    /\ messages' = ApplyRemoteInsert(messages, newMessage)
    /\ lastPush' = IF HasId(messages, newMessage.id) THEN "present" ELSE "absent"
    /\ UNCHANGED <<db, mounted, messageText, loadingMessages, sendingMessage,
                   refreshToken, loads, channel, send, alerts>>
    /\ rejectedSend' = FALSE
    /\ UNCHANGED <<channelLog, resolverVars>>

\* The backend answers the select of run k of the load effect.
LoadAnswer(k) ==
    /\ k \in 1..Len(loads)
    /\ loads[k].phase = "sent"
    /\ \/ loads' = [loads EXCEPT ![k].phase = "answered", ![k].error = TRUE]
       \/ \E data \in OrderedByCreatedAt(db) :
             loads' = [loads EXCEPT ![k].phase = "answered", ![k].data = data]
    /\ UNCHANGED <<db, pushQueue, mounted, messages, messageText,
                   loadingMessages, sendingMessage, refreshToken, channel, send,
                   alerts>>
    /\ rejectedSend' = FALSE
    /\ UNCHANGED <<lastPush, channelLog, resolverVars>>

\* A faulty variant of LoadResult: the batch is put in front of the pending
\* entries of the timeline, which stay.
LoadResultKeepsPending(k) ==
    /\ k \in 1..Len(loads)
    /\ loads[k].phase = "answered"
    /\ loads' = [loads EXCEPT ![k] = [phase |-> "done", isMounted |-> @.isMounted,
                                      error |-> FALSE, data |-> <<>>]]
    /\ IF ~loads[k].isMounted
       THEN UNCHANGED <<messages, loadingMessages, alerts>>
       ELSE IF loads[k].error
            THEN /\ alerts' = alerts \cup {"load"}
                 /\ loadingMessages' = FALSE
                 /\ UNCHANGED messages
            ELSE /\ messages' = loads[k].data
                                   \o SelectSeq(messages, LAMBDA m : m.id.kind = "temp")
                 /\ loadingMessages' = FALSE
                 /\ UNCHANGED alerts
    /\ UNCHANGED <<db, pushQueue, mounted, messageText, sendingMessage,
                   refreshToken, channel, send>>
    /\ rejectedSend' = FALSE
    /\ UNCHANGED <<lastPush, channelLog, resolverVars>>

\* A faulty variant of LoadResult: the error branch empties the timeline.
LoadResultClearsOnError(k) ==
    /\ k \in 1..Len(loads)
    /\ loads[k].phase = "answered"
    /\ loads' = [loads EXCEPT ![k] = [phase |-> "done", isMounted |-> @.isMounted,
                                      error |-> FALSE, data |-> <<>>]]
    /\ IF ~loads[k].isMounted
       THEN UNCHANGED <<messages, loadingMessages, alerts>>
       ELSE IF loads[k].error
            THEN /\ alerts' = alerts \cup {"load"}
                 /\ loadingMessages' = FALSE
                 /\ messages' = <<>>
            ELSE /\ messages' = loads[k].data
                 /\ loadingMessages' = FALSE
                 /\ UNCHANGED alerts
    /\ UNCHANGED <<db, pushQueue, mounted, messageText, sendingMessage,
                   refreshToken, channel, send>>
    /\ rejectedSend' = FALSE
    /\ UNCHANGED <<lastPush, channelLog, resolverVars>>

\* loadMessages of run k after its await.
LoadResult(k) ==
    /\ k \in 1..Len(loads)
    /\ loads[k].phase = "answered"
    /\ loads' = [loads EXCEPT ![k] = [phase |-> "done", isMounted |-> @.isMounted,
                                      error |-> FALSE, data |-> <<>>]]
    /\ IF ~loads[k].isMounted
       THEN UNCHANGED <<messages, loadingMessages, alerts>>
       ELSE IF loads[k].error
            THEN /\ alerts' = alerts \cup {"load"}
                 /\ loadingMessages' = FALSE
                 /\ UNCHANGED messages
            ELSE /\ messages' = loads[k].data
                 /\ loadingMessages' = FALSE
                 /\ UNCHANGED alerts
    /\ UNCHANGED <<db, pushQueue, mounted, messageText, sendingMessage,
                   refreshToken, channel, send>>
    /\ rejectedSend' = FALSE
    /\ UNCHANGED <<lastPush, channelLog, resolverVars>>

\* A faulty variant of Refresh: the subscription effect runs again with the
\* load effect, its cleanup first.
RefreshResubscribes ==
    /\ mounted
    /\ ~loadingMessages
    /\ refreshToken < MaxRefresh
    /\ refreshToken' = refreshToken + 1
    /\ loads' = Append([k \in 1..Len(loads) |-> [loads[k] EXCEPT !.isMounted = FALSE]],
                       StartedLoad)
    /\ loadingMessages' = TRUE
    /\ channel' = "joining"
    /\ channelLog' = Subscribe(RemoveChannel(channelLog))
    /\ pushQueue' = {}
    /\ UNCHANGED <<db, mounted, messages, messageText, sendingMessage, send,
                   alerts>>
    /\ rejectedSend' = FALSE
    /\ UNCHANGED <<lastPush, resolverVars>>

\* onRefresh of the list, which is rendered while not loadingMessages: the
\* cleanup of the previous run of the load effect, then the next run up to
\* its await.
Refresh ==
    /\ mounted
    /\ ~loadingMessages
    /\ refreshToken < MaxRefresh
    /\ refreshToken' = refreshToken + 1
    /\ loads' = Append([k \in 1..Len(loads) |-> [loads[k] EXCEPT !.isMounted = FALSE]],
                       StartedLoad)
    /\ loadingMessages' = TRUE
    /\ UNCHANGED <<db, pushQueue, mounted, messages, messageText,
                   sendingMessage, channel, send, alerts>>
    /\ rejectedSend' = FALSE
    /\ UNCHANGED <<lastPush, channelLog, resolverVars>>

\* A faulty variant of RefreshWhileLoading: the cleanup of the run before
\* does not clear its isMounted.
RefreshKeepsOldLoads ==
    /\ mounted
    /\ loadingMessages
    /\ refreshToken < MaxRefresh
    /\ refreshToken' = refreshToken + 1
    /\ loads' = Append(loads, StartedLoad)
    /\ UNCHANGED <<db, pushQueue, mounted, messages, messageText,
                   loadingMessages, sendingMessage, channel, send, alerts>>
    /\ rejectedSend' = FALSE
    /\ UNCHANGED <<lastPush, channelLog, resolverVars>>

\* onRefresh taken in a render that still shows the list although a run of
\* the load effect is pending or in flight (loadingMessages starts as false
\* and is set by the effect, after the render): the cleanup of that run,
\* then the next run up to its await.
RefreshWhileLoading ==
    /\ mounted
    /\ loadingMessages
    /\ refreshToken < MaxRefresh
    /\ refreshToken' = refreshToken + 1
    /\ loads' = Append([k \in 1..Len(loads) |-> [loads[k] EXCEPT !.isMounted = FALSE]],
                       StartedLoad)
    /\ UNCHANGED <<db, pushQueue, mounted, messages, messageText,
                   loadingMessages, sendingMessage, channel, send, alerts>>
    /\ rejectedSend' = FALSE
    /\ UNCHANGED <<lastPush, channelLog, resolverVars>>

\* A faulty variant of Unmount: the cleanup of the load effect does not
\* clear isMounted.
UnmountKeepsLoads ==
    /\ mounted
    /\ mounted' = FALSE
    /\ channel' = "removed"
    /\ channelLog' = RemoveChannel(channelLog)
    /\ pushQueue' = {}
    /\ UNCHANGED <<db, messages, messageText, loadingMessages, sendingMessage,
                   refreshToken, loads, send, alerts>>
    /\ rejectedSend' = FALSE
    /\ UNCHANGED <<lastPush, resolverVars>>

\* The screen is left: the cleanups of the load and subscription effects.
Unmount ==
    /\ mounted
    /\ mounted' = FALSE
    /\ loads' = [k \in 1..Len(loads) |-> [loads[k] EXCEPT !.isMounted = FALSE]]
    /\ channel' = "removed"
    /\ channelLog' = RemoveChannel(channelLog)
    /\ pushQueue' = {}
    /\ UNCHANGED <<db, messages, messageText, loadingMessages, sendingMessage,
                   refreshToken, send, alerts>>
    /\ rejectedSend' = FALSE
    /\ UNCHANGED <<lastPush, resolverVars>>

\* The screen gets the route params of another conversation, one without
\* messages so far: in one commit the cleanups of the load and subscription
\* effects run, then the three effects keyed by conversationId.
ChangeConversation ==
    /\ mounted
    /\ Len(channelLog) < 2 * MaxChanges
    /\ db' = <<>>
    /\ pushQueue' = {}
    /\ messages' = <<>>
    /\ loads' = Append([k \in 1..Len(loads) |-> [loads[k] EXCEPT !.isMounted = FALSE]],
                       StartedLoad)
    /\ loadingMessages' = TRUE
    /\ channel' = "joining"
    /\ channelLog' = Subscribe(RemoveChannel(channelLog))
    /\ UNCHANGED <<mounted, messageText, sendingMessage, refreshToken, send,
                   alerts>>
    /\ rejectedSend' = FALSE
    /\ UNCHANGED <<lastPush, resolverVars>>

NextThread ==
    \/ \E t \in Texts : ChangeText(t)
    \/ SendMessage
    \/ InsertAnswer
    \/ SendResult
    \/ OtherInsert
    \/ ChannelJoined
    \/ \E m \in pushQueue : PushInsert(m)
    \/ \E k \in 1..Len(loads) : LoadAnswer(k)
    \/ \E k \in 1..Len(loads) : LoadResult(k)
    \/ Refresh
    \/ Unmount

InitBackend ==
    /\ conversations = {}
    /\ conversation_members = {}

InitChatList ==
    /\ InitBackend
    /\ profiles = [u \in Users |-> LoadedProfiles(u)]
    /\ openingProfileId = [u \in Users |-> Null]
    /\ call = [c \in Calls |-> IdleCall]
    /\ returned = NoReturn
    /\ navigations = {}

InitResolver == InitChatList /\ InitChatThread

NextResolver ==
    \/ \E c \in Calls, u \in Users, p \in Users : StartOpenConversation(c, u, p)
    \/ \E c \in Calls : MembershipsAnswer(c)
    \/ \E c \in Calls : SharedAnswer(c)
    \/ \E c \in Calls : ConversationInsertAnswer(c)
    \/ \E c \in Calls : MembersInsertAnswer(c)

\* Devices of all users open conversations concurrently.
SpecResolver == InitResolver /\ [][NextResolver]_vars

\* openConversation calls run one after another: a call starts only when no
\* other call is in flight.
\* A tap while no call is in flight.
StartAlone(c, u, p) ==
    /\ \A d \in Calls : call[d].pc = "idle"
    /\ StartOpenConversation(c, u, p)

NextResolverSeq ==
    \/ \E c \in Calls, u \in Users, p \in Users : StartAlone(c, u, p)
    \/ \E c \in Calls : MembershipsAnswer(c)
    \/ \E c \in Calls : SharedAnswer(c)
    \/ \E c \in Calls : ConversationInsertAnswer(c)
    \/ \E c \in Calls : MembersInsertAnswer(c)

SpecResolverSeq == InitResolver /\ [][NextResolverSeq]_vars

\* openConversation as an operation on any profile, the current user's own
\* included: the list is not the one loadProfiles filters.
InitResolveAny ==
    /\ InitBackend
    /\ profiles = [u \in Users |-> Users]
    /\ openingProfileId = [u \in Users |-> Null]
    /\ call = [c \in Calls |-> IdleCall]
    /\ returned = NoReturn
    /\ navigations = {}
    /\ InitChatThread

SpecResolveAny == InitResolveAny /\ [][NextResolverSeq]_vars

\* One ChatThread against its backend; the ChatList screens stay idle.
InitThread == InitChatList /\ InitChatThread

SpecThread == InitThread /\ [][NextThread]_vars

\* The thread with a backend that answers every insert and a runtime that
\* resumes sendMessage after its await: neither the answer nor the rest of
\* sendMessage is put off forever.  Loads, pushes and the user are free.
SpecThreadFair ==
    /\ InitThread
    /\ [][NextThread]_vars
    /\ WF_vars(InsertAnswer)
    /\ WF_vars(SendResult)

\* The effects of one ChatThread whose conversationId may change while it is
\* mounted; the user reads and refreshes, the other participant writes.
NextSubscription ==
    \/ ChangeConversation
    \/ OtherInsert
    \/ ChannelJoined
    \/ \E m \in pushQueue : PushInsert(m)
    \/ \E k \in 1..Len(loads) : LoadAnswer(k)
    \/ \E k \in 1..Len(loads) : LoadResult(k)
    \/ Refresh
    \/ Unmount

SpecSubscription == InitThread /\ [][NextSubscription]_vars

\* The loads of one ChatThread, with refreshes that may start while a load
\* is in flight; the user reads and refreshes, the other participant
\* writes.
NextLoads ==
    \/ OtherInsert
    \/ ChannelJoined
    \/ \E m \in pushQueue : PushInsert(m)
    \/ \E k \in 1..Len(loads) : LoadAnswer(k)
    \/ \E k \in 1..Len(loads) : LoadResult(k)
    \/ Refresh
    \/ RefreshWhileLoading
    \/ Unmount

SpecLoads == InitThread /\ [][NextLoads]_vars

\* The channel delivers the INSERT events in the order of the inserts.
PushInsertInOrder(newMessage) ==
    /\ \A other \in pushQueue : newMessage.id.n <= other.id.n
    /\ PushInsert(newMessage)

NextThreadInOrder ==
    \/ \E t \in Texts : ChangeText(t)
    \/ SendMessage
    \/ InsertAnswer
    \/ SendResult
    \/ OtherInsert
    \/ ChannelJoined
    \/ \E m \in pushQueue : PushInsertInOrder(m)
    \/ \E k \in 1..Len(loads) : LoadAnswer(k)
    \/ \E k \in 1..Len(loads) : LoadResult(k)
    \/ Refresh
    \/ Unmount

SpecThreadInOrder == InitThread /\ [][NextThreadInOrder]_vars

(***************************************************************************)
(* Claims about openConversation.                                          *)
(***************************************************************************)

\* C5: in every reachable state, also under interleaved openConversation
\* calls for the same pair, at most one conversation has a membership set
\* that is exactly {a, b}.
OneConversationPerPair ==
    \A a \in Users, b \in Users :
        a # b =>
            Cardinality({k \in conversations : MembersOf(k) = {a, b}}) <= 1

\* C6: when openConversation calls run one after another, every call for the
\* same two users navigates to the same conversation id, whichever of the two
\* invokes it.
SameConversationForPair ==
    \A n1 \in navigations, n2 \in navigations :
        n1.participants = n2.participants =>
            n1.conversationId = n2.conversationId

\* A call of u2 for u1 has navigated to the conversation an earlier call
\* created for the pair.
SameConversationWitness ==
    /\ returned.userId = "u2" /\ returned.profile = "u1"
    /\ returned.navigated # NoConv
    /\ returned.hadShared /\ ~returned.inserted
    /\ Cardinality({n \in navigations : n.participants = {"u1", "u2"}}) = 1
    /\ Cardinality(navigations) > 1

\* C7: a call that started when a conversation of the current user and the
\* selected profile existed changes neither table in any of its steps, and
\* when it returns without an error it has navigated to a conversation of
\* both.
ExistingConversationNoInsert ==
    [][\A c \in Calls :
          (call[c].hadShared /\ call'[c] # call[c]) =>
              /\ conversations' = conversations
              /\ conversation_members' = conversation_members
              /\ (call'[c].pc = "idle" /\ returned'.failedAt = "none") =>
                    returned'.navigated \in
                        SharedConversations(call[c].userId, call[c].profile)]_vars

\* A call that found the existing conversation has returned it while the
\* tables hold two conversations.
ExistingConversationWitness ==
    /\ returned.hadShared
    /\ returned.failedAt = "none"
    /\ returned.navigated # NoConv
    /\ Cardinality(conversations) = 2

\* C8: every conversation id handed to ChatThread has a membership row for
\* the current user and one for the selected profile.
NavigatedHasBothMembers ==
    \A n \in navigations :
        /\ Cardinality(n.participants) = 2
        /\ \A u \in n.participants :
              [conversation_id |-> n.conversationId, user_id |-> u]
                  \in conversation_members

\* A call has navigated to an existing conversation while the selected
\* profile is also a member of a conversation the current user is not in.
NavigatedWitness ==
    /\ returned.navigated # NoConv /\ ~returned.inserted
    /\ QueryMemberships(returned.profile) \ QueryMemberships(returned.userId) # {}

\* C9: a call alerts an error only to return at once; a call that returned
\* after the error of a step did not navigate, and the failed step is the
\* last request it issued and was issued once.
FailureAbortsCall ==
    /\ \A c \in Calls : call[c].failedAt = "none"
    /\ returned.failedAt # "none" =>
          /\ returned.navigated = NoConv
          /\ returned.issued # <<>>
          /\ returned.issued[Len(returned.issued)] = returned.failedAt
          /\ \A i, j \in 1..Len(returned.issued) :
                returned.issued[i] = returned.issued[j] => i = j

\* The membership insert failed after the conversation row was inserted.
FailureWitness ==
    /\ returned.failedAt = "insMem"
    /\ returned.inserted
    /\ Len(returned.issued) = 4

EntriesWithId(timeline, id) == {i \in 1..Len(timeline) : timeline[i].id = id}

\* C1: in every reachable state no two entries of the timeline carry the
\* same id of the messages table.
NoDuplicateServerIds ==
    \A i, j \in 1..Len(messages) :
        (messages[i].id.kind = "row" /\ messages[i].id = messages[j].id) => i = j

\* C2: when the success result of a send is processed while the row it
\* inserted is already in the timeline next to the pending entry, the
\* timeline afterwards has exactly one entry with the row's id and none with
\* the temporary id.
PendingDroppedWhenPushWon ==
    [][(/\ mounted
        /\ send.phase = "answered"
        /\ send' = NoSend
        /\ ~send.error
        /\ HasId(messages, send.data.id)
        /\ HasId(messages, send.optimisticId)) =>
           /\ Cardinality(EntriesWithId(messages', send.data.id)) = 1
           /\ ~HasId(messages', send.optimisticId)]_vars

\* C3: an INSERT event whose id is in the timeline leaves the timeline as it
\* is; one whose id is absent adds one entry, the event's row, and changes
\* no other.
RemoteInsertOnce ==
    [][\A m \in pushQueue :
          PushInsert(m) =>
              IF HasId(messages, m.id)
              THEN messages' = messages
              ELSE /\ Len(messages') = Len(messages) + 1
                   /\ Cardinality(EntriesWithId(messages', m.id)) = 1
                   /\ \E k \in EntriesWithId(messages', m.id) :
                         /\ messages'[k] = m
                         /\ \A i \in 1..Len(messages) :
                               messages[i] = messages'[IF i < k THEN i ELSE i + 1]]_vars

\* The event of the row the local send has already confirmed was delivered
\* and changed nothing: the timeline holds the row once.
RemoteInsertWitness ==
    /\ lastPush = "present"
    /\ send = NoSend
    /\ \E i \in 1..Len(messages) :
          /\ messages[i].sender_id = Me
          /\ messages[i].id.kind = "row"
          /\ Cardinality(EntriesWithId(messages, messages[i].id)) = 1
    /\ \E i \in 1..Len(messages) : messages[i].sender_id = Other

\* The order of the timeline: created_at ascending, ties by id.  Ids of one
\* kind go by their number; a temporary id and an id of the table are never
\* compared, either order of the two is accepted.
IdBefore(a, b) == a.kind = b.kind /\ a.n < b.n

EntryBefore(a, b) ==
    \/ a.created_at < b.created_at
    \/ a.created_at = b.created_at /\ IdBefore(a.id, b.id)

\* C4: in every reachable state the timeline is sorted by created_at
\* ascending, ties broken by id: no entry stands after one it comes before
\* in that order.
TimelineSorted ==
    \A i, j \in 1..Len(messages) :
        i < j => ~EntryBefore(messages[j], messages[i])

\* The timeline without its k-th entry.
WithoutEntry(timeline, k) ==
    [i \in 1..(Len(timeline) - 1) |-> timeline[IF i < k THEN i ELSE i + 1]]

\* C11: after the failure result of a send is processed on the mounted
\* screen, no entry of the timeline carries the send's temporary id, and the
\* other entries are the ones before, in their order.
FailureRemovesPending ==
    [][(/\ mounted
        /\ send.phase = "answered"
        /\ send' = NoSend
        /\ send.error) =>
           /\ ~HasId(messages', send.optimisticId)
           /\ IF HasId(messages, send.optimisticId)
              THEN \E k \in EntriesWithId(messages, send.optimisticId) :
                      messages' = WithoutEntry(messages, k)
              ELSE messages' = messages]_vars

\* The failure of a send has been processed: the body is back in the input,
\* the pending entry is gone, and the timeline still holds the message of
\* the other participant that a push added after the pending entry.
FailureRemovesPendingWitness ==
    /\ mounted
    /\ send = NoSend
    /\ "send" \in alerts
    /\ messageText = <<"h">>
    /\ messages # <<>>
    /\ lastPush = "absent"
    /\ \A i \in 1..Len(messages) : messages[i].id.kind = "row"

\* C12: from the step that accepts a send until its result is processed the
\* input is empty; the step that processes the failure on the mounted screen
\* puts the body of the withdrawn entry into the input, a text sendMessage
\* accepts again.
FailureRestoresText ==
    [][/\ send'.phase # "none" => messageText' = <<>>
       /\ (/\ mounted
           /\ send.phase = "answered"
           /\ send' = NoSend
           /\ send.error) =>
              /\ messageText' = send.trimmed
              /\ \A k \in EntriesWithId(messages, send.optimisticId) :
                    messages[k].body = messageText'
              /\ Trim(messageText') # <<>>]_vars

\* The failure of a send has been processed while its pending entry was the
\* only entry: the timeline is empty and the body is in the input.
FailureRestoresTextWitness ==
    /\ mounted
    /\ send = NoSend
    /\ ~sendingMessage
    /\ alerts = {"send"}
    /\ messageText = <<"h">>
    /\ messages = <<>>
    /\ db = <<>>

\* C13: when the success result of a send is processed on the mounted
\* screen, the timeline afterwards has exactly one entry with the id of the
\* inserted row and none with the temporary id, also when a load has
\* completed since the optimistic append.  Stated for the sends whose row no
\* push has brought into the timeline before the result (the other sends
\* are C2's case).
ConfirmedOnceDespiteLoad ==
    [][(/\ mounted
        /\ send.phase = "answered"
        /\ send' = NoSend
        /\ ~send.error
        /\ ~HasId(messages, send.data.id)) =>
           /\ Cardinality(EntriesWithId(messages', send.data.id)) = 1
           /\ ~HasId(messages', send.optimisticId)]_vars

\* The text is empty or has only whitespace.
Blank(t) == \A i \in 1..Len(t) : t[i] = " "

\* C14: a press of send on a text that is empty or only whitespace issues
\* no insert and changes neither the timeline nor the sending flag nor the
\* table.
BlankSendRejected ==
    [][(SendMessage /\ Blank(messageText)) =>
          /\ rejectedSend'
          /\ send' = send
          /\ db' = db
          /\ messages' = messages
          /\ sendingMessage' = sendingMessage]_vars

\* Send was pressed on a text of one space while the timeline held a
\* message and no send was in flight, and the press was rejected.
BlankSendRejectedWitness ==
    /\ rejectedSend
    /\ messageText = <<" ">>
    /\ messages # <<>>
    /\ send = NoSend
    /\ ~sendingMessage

\* body is text without the whitespace at its two ends.
IsTrimmed(body, text) ==
    /\ body # <<>>
    /\ body[1] # " " /\ body[Len(body)] # " "
    /\ \E a, b \in 0..Len(text) :
          /\ a + b <= Len(text)
          /\ body = SubSeq(text, a + 1, Len(text) - b)
          /\ Blank(SubSeq(text, 1, a))
          /\ Blank(SubSeq(text, Len(text) - b + 1, Len(text)))

\* The rows of the table the current user sent.
MyRows(rows) == {i \in 1..Len(rows) : rows[i].sender_id = Me}

\* C15: a press of send that is accepted appends one entry to the timeline,
\* pending, of the current user, with the trimmed text as body, and issues
\* the one insert of the send; the insert is answered once, adding at most
\* one row, and its result is processed once, after which no result of the
\* send is left.
AcceptedSendOnce ==
    [][/\ (SendMessage /\ ~rejectedSend') =>
              /\ Len(messages') = Len(messages) + 1
              /\ \A i \in 1..Len(messages) : messages'[i] = messages[i]
              /\ LET last == messages'[Len(messages')]
                 IN /\ last.id.kind = "temp"
                    /\ last.sender_id = Me
                    /\ IsTrimmed(last.body, messageText)
                    /\ send.phase = "none"
                    /\ send'.phase = "sent"
                    /\ send'.optimisticId = last.id
                    /\ send'.trimmed = last.body
              /\ db' = db
       /\ (send.phase = "sent" /\ send' # send) =>
              /\ send'.phase = "answered"
              /\ send'.optimisticId = send.optimisticId
       /\ (send.phase = "answered" /\ send' # send) => send' = NoSend
       /\ MyRows(db') # MyRows(db) =>
              /\ send.phase = "sent" /\ send'.phase = "answered"
              /\ Len(db') = Len(db) + 1
              /\ db'[Len(db')].body = send.trimmed]_vars

\* A send was accepted while the timeline held a message: its pending entry
\* with body "h" is the last of two entries and its insert is in flight.
AcceptedSendWitness ==
    /\ send.phase = "sent"
    /\ Len(messages) = 2
    /\ messages[2].id = send.optimisticId
    /\ messages[2].body = <<"h">>
    /\ messages[1].sender_id = Other

\* The timeline holds a pending entry.
HasPending == \E i \in 1..Len(messages) : messages[i].id.kind = "temp"

\* C16: when every insert is answered, a timeline of the mounted screen
\* that holds a pending entry comes to hold none (the entry was replaced by
\* the confirmed row or removed), unless the screen is left before.
PendingResolved == (mounted /\ HasPending) ~> (~mounted \/ ~HasPending)

\* The pending entry of a send was replaced by its row: the screen is
\* mounted, the first load has not been answered and no push was handled,
\* and the timeline holds the row of the current user and no pending entry.
PendingResolvedWitness ==
    /\ mounted
    /\ send = NoSend
    /\ ~HasPending
    /\ loads = <<StartedLoad>>
    /\ lastPush = "none"
    /\ \E i \in 1..Len(messages) :
          messages[i].sender_id = Me /\ messages[i].id.kind = "row"

\* C17: the step that processes the result of a send after the screen was
\* left changes neither the timeline nor the input nor the sending flag,
\* and raises no alert.
LateSendResultDiscarded ==
    [][(/\ ~mounted
        /\ send.phase = "answered"
        /\ send' = NoSend) =>
           /\ messages' = messages
           /\ messageText' = messageText
           /\ sendingMessage' = sendingMessage
           /\ alerts' = alerts]_vars

\* The channels subscribed and not removed after the first n calls of log.
OpenChannels(log, n) ==
    Cardinality({i \in 1..n : log[i] = "subscribe"})
        - Cardinality({i \in 1..n : log[i] = "remove"})

\* C18: at every point of the history of a ChatThread at most one channel
\* is subscribed and not removed, so a channel is subscribed only when the
\* one before it has been removed; the channel the thread holds is open
\* exactly when one is counted.
OneSubscription ==
    /\ \A n \in 0..Len(channelLog) : OpenChannels(channelLog, n) \in {0, 1}
    /\ channel \in {"joining", "joined"} <=>
          OpenChannels(channelLog, Len(channelLog)) = 1

\* The conversationId changed after a refresh: the first channel was
\* removed, the second has joined and has delivered an event.
OneSubscriptionWitness ==
    /\ channelLog = <<"subscribe", "remove", "subscribe">>
    /\ channel = "joined"
    /\ refreshToken = 1
    /\ lastPush = "absent"
    /\ mounted

\* C19: the step that processes the successful result of the current run of
\* the load effect makes the timeline the fetched batch, entry by entry in
\* the batch's order: no entry of the timeline before that is not in the
\* batch is left, and an empty batch gives an empty timeline.
LoadReplacesTimeline ==
    [][\A k \in 1..Len(loads) :
          (/\ loads[k].phase = "answered"
           /\ loads'[k].phase = "done"
           /\ loads[k].isMounted
           /\ ~loads[k].error) =>
              LET batch == loads[k].data
              IN /\ Len(messages') = Len(batch)
                 /\ \A i \in 1..Len(batch) : messages'[i] = batch[i]
                 /\ \A i \in 1..Len(messages) :
                       (\A j \in 1..Len(batch) : batch[j] # messages[i]) =>
                           ~HasId(messages', messages[i].id)
                 /\ batch = <<>> => messages' = <<>>]_vars

\* A refresh has completed while a send is in flight: the timeline is the
\* batch of one row and the pending entry of the send is gone.
LoadReplacesWitness ==
    /\ mounted
    /\ refreshToken = 1
    /\ loads[2].phase = "done"
    /\ ~loadingMessages
    /\ send.phase = "sent"
    /\ ~HasPending
    /\ Len(messages) = 1
    /\ lastPush = "none"

\* C20: while a send is in flight, its temporary id is none of the ids the
\* messages table assigns, and an entry of the timeline that carries it is
\* the pending entry of the send and no row of the table: no confirmed
\* entry has the identity of a pending one.
PendingIdsApart ==
    send.phase # "none" =>
        /\ \A n \in 1..(MaxMsgs + 1) : send.optimisticId # RowId(n)
        /\ \A i \in 1..Len(messages) :
              messages[i].id = send.optimisticId =>
                  /\ messages[i].sender_id = Me
                  /\ messages[i].body = send.trimmed
                  /\ \A r \in 1..Len(db) : db[r] # messages[i]

\* The pending entry temp-1 stands in the timeline next to the confirmed
\* entry of row 1.
PendingIdsApartWitness ==
    /\ mounted
    /\ send.phase = "sent"
    /\ send.optimisticId = TempId(1)
    /\ HasId(messages, TempId(1))
    /\ HasId(messages, RowId(1))

\* The result of the first run of the load effect has been processed.
InitialLoadDone == loads[1].phase = "done"

\* C21: the channel of the thread comes to deliver events only after the
\* initial load has completed, and no INSERT event is applied to the
\* timeline before.
SubscribedAfterInitialLoad ==
    [][/\ (channel # "joined" /\ channel' = "joined") => InitialLoadDone
       /\ \A m \in pushQueue : PushInsert(m) => InitialLoadDone]_vars

\* C22: the step that leaves the screen removes the channel, and in no later
\* step does the INSERT handler run or a load result change the timeline,
\* the loading flag or the alerts.
DeactivationStopsCallbacks ==
    [][/\ (mounted /\ ~mounted') =>
              /\ channel' = "removed"
              /\ channelLog' = Append(channelLog, "remove")
       /\ ~mounted =>
              /\ channel' = "removed"
              /\ channelLog' = channelLog
              /\ lastPush' = lastPush
              /\ \A m \in pushQueue : ~PushInsert(m)
              /\ messages' = messages
              /\ loadingMessages' = loadingMessages
              /\ "load" \in alerts' => "load" \in alerts]_vars

\* The screen was left while its refresh was in flight and rows were in the
\* table; the select was answered and its result went through loadMessages,
\* and the timeline is still the empty one of before.
DeactivationWitness ==
    /\ ~mounted
    /\ channel = "removed"
    /\ refreshToken = 1
    /\ loads[2].phase = "done"
    /\ loadingMessages
    /\ Len(db) = 2
    /\ messages = <<>>
    /\ send = NoSend
    /\ alerts = {}

\* C23: a refresh starts one more run of the load effect and leaves the
\* channel as it is, neither removed nor subscribed again, with the events
\* on their way to it; while the refresh is in flight every event of the
\* joined channel can be delivered to the handler.
RefreshKeepsSubscription ==
    [][/\ Refresh =>
              /\ Len(loads') = Len(loads) + 1
              /\ loads'[Len(loads')] = StartedLoad
              /\ loadingMessages'
              /\ channel' = channel
              /\ channelLog' = channelLog
              /\ pushQueue' = pushQueue
       /\ (mounted /\ refreshToken > 0 /\ loadingMessages /\ channel = "joined") =>
              \A m \in pushQueue : ENABLED PushInsert(m)]_vars

\* The select of a refresh was answered with the empty table and its result
\* is not processed yet; since then two rows were inserted and pushed into
\* the timeline by the channel subscribed at mount.
RefreshKeepsSubscriptionWitness ==
    /\ mounted
    /\ refreshToken = 1
    /\ loads[2].phase = "answered"
    /\ ~loads[2].error
    /\ loads[2].data = <<>>
    /\ Len(messages) = 2
    /\ \A i \in 1..2 : messages[i].sender_id = Other
    /\ channel = "joined"
    /\ channelLog = <<"subscribe">>

\* The pending entries of a timeline.
PendingEntries(timeline) ==
    {i \in 1..Len(timeline) : timeline[i].id.kind = "temp"}

\* C24: after every step the timeline holds at most one pending entry and,
\* on the mounted screen, the sending flag is set exactly while the insert
\* of a send is unanswered or its result unprocessed; a press of send in
\* that time changes neither the timeline nor the input nor the table and
\* issues no insert.
OneSendAtATime ==
    [][/\ Cardinality(PendingEntries(messages')) <= 1
       /\ mounted' => (sendingMessage' <=> send'.phase # "none")
       /\ (SendMessage /\ send.phase # "none") =>
              /\ rejectedSend'
              /\ send' = send
              /\ messages' = messages
              /\ messageText' = messageText
              /\ db' = db
              /\ pushQueue' = pushQueue]_vars

\* Send was pressed while the insert of the send before was unanswered, and
\* the press was ignored: one pending entry, after the message of the other
\* participant.
OneSendAtATimeWitness ==
    /\ rejectedSend
    /\ sendingMessage
    /\ send.phase = "sent"
    /\ Len(messages) = 2
    /\ PendingEntries(messages) = {2}
    /\ db # <<>>

\* C25: while the screen is mounted, no step takes out of the timeline the
\* id of a row of the table that an entry carried before the step.
ServerEntriesPersist ==
    [][(mounted /\ mounted') =>
          \A i \in 1..Len(messages) :
              messages[i].id.kind = "row" => HasId(messages', messages[i].id)]_vars

\* C26: the step that processes the result of a run of the load effect
\* that is not the one started last changes neither timeline nor loading
\* flag nor alerts, whether it comes before or after the result of the last
\* run; the successful result of the last run, on the mounted screen,
\* becomes the timeline.
OnlyLatestLoadApplied ==
    [][\A k \in 1..Len(loads) :
          (loads[k].phase = "answered" /\ loads'[k].phase = "done") =>
              IF k < Len(loads)
              THEN /\ messages' = messages
                   /\ loadingMessages' = loadingMessages
                   /\ alerts' = alerts
              ELSE (mounted /\ ~loads[k].error) =>
                       /\ messages' = loads[k].data
                       /\ ~loadingMessages']_vars

\* The refresh started while the initial load was in flight; its result, a
\* batch of one row, was applied first, and the answer of the initial load,
\* the empty table, is still to be processed.
OnlyLatestLoadWitness ==
    /\ mounted
    /\ Len(loads) = 2
    /\ loads[1].phase = "answered" /\ ~loads[1].error /\ loads[1].data = <<>>
    /\ loads[2].phase = "done"
    /\ ~loadingMessages
    /\ Len(messages) = 1
    /\ lastPush = "none"
    /\ alerts = {}

\* C27: the step that processes the error of the current run of the load
\* effect leaves the timeline as it is, clears the loading flag and raises
\* the alert; it starts no run of the load effect.
FailedLoadKeepsTimeline ==
    [][\A k \in 1..Len(loads) :
          (/\ loads[k].phase = "answered"
           /\ loads'[k].phase = "done"
           /\ loads[k].isMounted
           /\ loads[k].error) =>
              /\ messages' = messages
              /\ ~loadingMessages'
              /\ alerts' = alerts \cup {"load"}
              /\ refreshToken' = refreshToken
              /\ Len(loads') = Len(loads)
              /\ \A j \in 1..Len(loads) :
                    loads'[j].phase = "sent" => loads[j].phase = "sent"]_vars

\* The refresh failed: the timeline still shows the message of the other
\* participant that the initial load brought, and the list is back.
FailedLoadWitness ==
    /\ mounted
    /\ refreshToken = 1
    /\ loads[2].phase = "done"
    /\ ~loadingMessages
    /\ alerts = {"load"}
    /\ lastPush = "none"
    /\ Len(messages) = 1
    /\ messages[1].sender_id = Other

====
